---- MODULE Spec2Model ----
(***************************************************************************)
(* Model of notebooks/merakiSSIDLimitsChecker.ipynb: the notebook lists    *)
(* the networks of an organization, collects the SSIDs of the wireless     *)
(* ones, lists those with a bandwidth limit, and after two confirmations   *)
(* clears the limits (removeSsidLimits) and, behind a second pair of       *)
(* confirmations, the traffic-shaping rules of every SSID slot             *)
(* (removeCustomTrafficShapingRules).                                      *)
(***************************************************************************)
EXTENDS Naturals, Integers, Sequences, FiniteSets

VARIABLES
    networks,                        \* result of getOrganizationNetworks
    cloud,                           \* the dashboard's SSID configuration, per network
    organization_ssids,              \* the flattened inventory
    organization_ssids_with_limits,  \* the detector's output
    pc,                              \* the statement the notebook is at
    response,                        \* the value input() returned to the pending `if`
    i,                               \* loop position: index into ssids / networks
    ssidNumber,                      \* loop position of range(15)
    calls,                           \* the mutation calls the dashboard accepted, in order
    stdout,                          \* the lines printed, in order
    outOfBand,                       \* number of changes made by someone else
    initial                          \* the configuration when the notebook started

vars == <<networks, cloud, organization_ssids, organization_ssids_with_limits,
          pc, response, i, ssidNumber, calls, stdout, outOfBand, initial>>

----------------------------------------------------------------------------
(* Bounds of the model. *)

MaxNetworks == 2      \* networks in the organization
MaxSsids == 2         \* configured SSIDs in the organization, all networks together
MaxOutOfBand == 1     \* configuration changes made by another administrator
MaxInventory == 2     \* inventory length the detector is applied to on its own
MaxRuns == 2          \* times the detection cell is run on one inventory

(* Program constants. *)

\* Variant: the range one slot short.
SsidSlotsShort == 15 - 1
SsidSlots == 15       \* range(15)
None == -1            \* Python's None / JSON null, distinct from every bandwidth value

NoResponse == "<none>"   \* no input() value is pending

\* The lines the notebook prints.
LimitsFound == "These SSIDs have bandwidth limits:"
NoLimitsFound == "There are no SSIDs with bandwidth limits set on the SSID level."
AskLimits == "Would you like to remove all SSID-level bandwidth limits?"
AskRules == "Would you also like to remove any and all custom traffic shaping rules?"
CONFIRM == "OK, are you sure you want to do this?"
CANCEL == "OK. Operation canceled."
WORKING == "Working..."
COMPLETE == "Operation complete."
Modifying == "Modifying ..."
Traceback == "Traceback (most recent call last)"

----------------------------------------------------------------------------
(* Values. *)

\* Python truthiness of a bandwidth field: None and 0 are falsy.
Truthy(v) == v # None /\ v # 0

\* Variant: the comparison folds case.
AffirmativeCaseFold(r) == r \in {"Y", "y", "Yes", "yes", "ye", "Ye", "YES", "YE", "yES"}
\* <response> in ['Y', 'y', 'Yes', 'yes', 'ye', 'Ye']
Affirmative(r) == r \in {"Y", "y", "Yes", "yes", "ye", "Ye"}

\* What the user may type at a prompt.
Responses == {"Y", "y", "Yes", "yes", "ye", "Ye",
              "", "n", "No", "YES", "yess"}

ProductTypeSets == {{"appliance"}, {"appliance", "wireless"}}

\* Variant: the productTypes test left out.
IsWirelessAlways(network) == TRUE
\* 'wireless' in network['productTypes']
IsWireless(network) == "wireless" \in network.productTypes

Zero == <<0, 0, 0, 0>>
\* The limits an SSID may start with: none set (0 or null), or one set.
LimitChoices == {<<0, None, 0, 0>>, <<None, 0, None, 500>>}
RuleChoices == {<<>>, <<"rule">>}

\* One SSID as the dashboard stores it.
SsidConfig(number, limits, rules) ==
    [number |-> number,
     perClientBandwidthLimitUp |-> limits[1],
     perClientBandwidthLimitDown |-> limits[2],
     perSsidBandwidthLimitUp |-> limits[3],
     perSsidBandwidthLimitDown |-> limits[4],
     rules |-> rules]

Limits(s) == <<s.perClientBandwidthLimitUp, s.perClientBandwidthLimitDown,
               s.perSsidBandwidthLimitUp, s.perSsidBandwidthLimitDown>>

RECURSIVE SumLen(_)
SumLen(ss) == IF ss = <<>> THEN 0 ELSE Len(Head(ss)) + SumLen(Tail(ss))

\* The SSID lists a network may hold: numbers 0..k-1 in order.
SsidLists(k) ==
    {[n \in 1..k |-> SsidConfig(n - 1, p[n][1], p[n][2])] :
        p \in [1..k -> LimitChoices \X RuleChoices]}

----------------------------------------------------------------------------
(* The dashboard API. *)

\* getNetworkWirelessSsids(networkId): the SSIDs of the network, in order.
getNetworkWirelessSsids(c, networkId) ==
    [k \in 1..Len(c[networkId]) |->
        [number |-> c[networkId][k].number,
         perClientBandwidthLimitUp |-> c[networkId][k].perClientBandwidthLimitUp,
         perClientBandwidthLimitDown |-> c[networkId][k].perClientBandwidthLimitDown,
         perSsidBandwidthLimitUp |-> c[networkId][k].perSsidBandwidthLimitUp,
         perSsidBandwidthLimitDown |-> c[networkId][k].perSsidBandwidthLimitDown]]

\* updateNetworkWirelessSsid(networkId, number, perClient...=.., perSsid...=..)
updateNetworkWirelessSsid(c, networkId, number, limits) ==
    [c EXCEPT ![networkId] =
        [k \in 1..Len(@) |->
            IF @[k].number = number
            THEN SsidConfig(@[k].number, limits, @[k].rules)
            ELSE @[k]]]

\* updateNetworkWirelessSsidTrafficShapingRules(networkId, number, rules=..)
updateNetworkWirelessSsidTrafficShapingRules(c, networkId, number, rules) ==
    [c EXCEPT ![networkId] =
        [k \in 1..Len(@) |->
            IF @[k].number = number
            THEN SsidConfig(@[k].number, Limits(@[k]), rules)
            ELSE @[k]]]

\* A call as the dashboard receives it, with the function that issued it.
Call(op, by, networkId, number, args) ==
    [op |-> op, by |-> by, networkId |-> networkId, number |-> number, args |-> args]

----------------------------------------------------------------------------
(* Inventory and detector. *)

RECURSIVE Enumeration(_, _, _)
\* for network in networks: if 'wireless' in productTypes: for ssid in ...: append
Enumeration(nets, c, n) ==
    IF n > Len(nets) THEN <<>>
    ELSE (IF IsWireless(nets[n])
          THEN LET ssids == getNetworkWirelessSsids(c, nets[n].id)
               IN  [k \in 1..Len(ssids) |-> [networkId |-> nets[n].id, ssid |-> ssids[k]]]
          ELSE <<>>)
         \o Enumeration(nets, c, n + 1)

\* Variant: only the per-client fields are tested.
HasLimitClientOnly(e) ==
    \/ Truthy(e.ssid.perClientBandwidthLimitUp)
    \/ Truthy(e.ssid.perClientBandwidthLimitDown)
\* if i[...Up] or i[...Down] or i[...Up] or i[...Down]
HasLimit(e) ==
    \/ Truthy(e.ssid.perClientBandwidthLimitUp)
    \/ Truthy(e.ssid.perClientBandwidthLimitDown)
    \/ Truthy(e.ssid.perSsidBandwidthLimitUp)
    \/ Truthy(e.ssid.perSsidBandwidthLimitDown)

\* [{'networkId': .., 'number': ..} for i in organization_ssids if ...]
Detector(inventory) ==
    LET kept == SelectSeq(inventory, HasLimit)
    IN  [k \in 1..Len(kept) |->
            [networkId |-> kept[k].networkId, number |-> kept[k].ssid.number]]

----------------------------------------------------------------------------
(* Initial states: an organization with its networks and their SSIDs. *)

Organizations ==
    {nets \in UNION {[1..n -> ProductTypeSets] : n \in 0..MaxNetworks} : TRUE}

NetworksOf(pts) == [n \in 1..Len(pts) |-> [id |-> n, productTypes |-> pts[n]]]

CloudsOf(nets) ==
    {c \in UNION {[1..Len(nets) -> UNION {SsidLists(k) : k \in 0..MaxSsids}]} :
        /\ SumLen(c) <= MaxSsids
        /\ \A n \in 1..Len(nets) : ~IsWireless(nets[n]) => c[n] = <<>>}

Init ==
    /\ \E pts \in Organizations : networks = NetworksOf(pts)
    /\ cloud \in CloudsOf(networks)
    /\ organization_ssids = <<>>
    /\ organization_ssids_with_limits = <<>>
    /\ pc = "enumerate"
    /\ response = NoResponse
    /\ i = 0
    /\ ssidNumber = 0
    /\ calls = <<>>
    /\ stdout = <<>>
    /\ outOfBand = 0
    /\ initial = cloud

----------------------------------------------------------------------------
(* Cells 5 and 6: inventory and detection. *)

\* for network in networks: ... organization_ssids.append(...)
\* (a failing list call ends the run before any prompt or update; not modelled)
Enumerate ==
    /\ pc = "enumerate"
    /\ organization_ssids' = Enumeration(networks, cloud, 1)
    /\ pc' = "detect"
    /\ UNCHANGED <<networks, cloud, organization_ssids_with_limits, response, i,
                   ssidNumber, calls, stdout, outOfBand, initial>>

\* organization_ssids_with_limits = [...]; then the report of what was found
DetectCell(at) ==
    /\ pc = at
    /\ organization_ssids_with_limits' = Detector(organization_ssids)
    /\ stdout' = Append(stdout,
                        IF Len(Detector(organization_ssids)) # 0
                        THEN LimitsFound
                        ELSE NoLimitsFound)
    /\ pc' = "targetedOffer"
    /\ UNCHANGED <<networks, cloud, organization_ssids, response, i, ssidNumber,
                   calls, outOfBand, initial>>

Detect == DetectCell("detect")

----------------------------------------------------------------------------
(* The prompts. *)

\* input('([Y]es/[N]o):') returns what the user typed
Input(at, to) ==
    /\ pc = at
    /\ \E r \in Responses : response' = r
    /\ pc' = to
    /\ UNCHANGED <<networks, cloud, organization_ssids, organization_ssids_with_limits,
                   i, ssidNumber, calls, stdout, outOfBand, initial>>

\* if <response> in [...]: print(yes); ... else: print(string_constants['CANCEL'])
\* The value input() returned is dropped, and the loop positions start over for
\* the function the affirmative branch may call.
Branch(at, yes, onYes, onNo) ==
    /\ pc = at
    /\ IF Affirmative(response)
       THEN stdout' = Append(stdout, yes) /\ pc' = onYes
       ELSE stdout' = Append(stdout, CANCEL) /\ pc' = onNo
    /\ response' = NoResponse
    /\ i' = 1
    /\ ssidNumber' = 0
    /\ UNCHANGED <<networks, cloud, organization_ssids, organization_ssids_with_limits,
                   calls, outOfBand, initial>>

----------------------------------------------------------------------------
(* Cell 7: removeSsidLimits(ssids). *)

\* Variant: the exception is swallowed and the loop goes on.
RaiseIgnored(at) == at
\* Where an API call that raises leaves the notebook: the cell stops.
Raise(at) == "error"

\* Variant: the SSID number is not passed on.
LimitClearCallWrongSsid(ssid) ==
    Call("updateNetworkWirelessSsid", "removeSsidLimits", ssid.networkId, 0, Zero)
\* dashboard.wireless.updateNetworkWirelessSsid(networkId, number, ...=0 x4)
LimitClearCall(ssid) ==
    Call("updateNetworkWirelessSsid", "removeSsidLimits", ssid.networkId, ssid.number, Zero)

\* Variant: the second call goes to the first endpoint.
RuleClearCallWrongEndpoint(by, networkId, number) ==
    Call("updateNetworkWirelessSsid", by, networkId, number, Zero)
\* dashboard.wireless.updateNetworkWirelessSsidTrafficShapingRules(.., rules=[])
RuleClearCall(by, networkId, number) ==
    Call("updateNetworkWirelessSsidTrafficShapingRules", by, networkId, number, <<>>)

\* The effect of an accepted call on the dashboard's configuration.
Apply(c, call) ==
    IF call.op = "updateNetworkWirelessSsid"
    THEN updateNetworkWirelessSsid(c, call.networkId, call.number, call.args)
    ELSE updateNetworkWirelessSsidTrafficShapingRules(c, call.networkId, call.number, call.args)

\* Variant: the whole inventory is handed over, not the candidates.
WholeInventoryTargets ==
    [k \in 1..Len(organization_ssids) |->
        [networkId |-> organization_ssids[k].networkId,
         number |-> organization_ssids[k].ssid.number]]
\* The list the targeted gate hands to removeSsidLimits.
RemediationTargets == organization_ssids_with_limits

\* An API call: the dashboard accepts it, or it raises.
Issue(call, at, next) ==
    /\ pc = at
    /\ \/ /\ calls' = Append(calls, call)
          /\ cloud' = Apply(cloud, call)
          /\ pc' = next
          /\ UNCHANGED stdout
       \/ /\ stdout' = Append(stdout, Traceback)
          /\ pc' = Raise(next)
          /\ UNCHANGED <<calls, cloud>>

\* for ssid in ssids: first call
RemoveSsidLimitsLimits ==
    /\ pc = "removeSsidLimits"
    /\ i <= Len(RemediationTargets)
    /\ Issue(LimitClearCall(RemediationTargets[i]), "removeSsidLimits", "removeSsidLimitsRules")
    /\ UNCHANGED <<networks, organization_ssids, organization_ssids_with_limits,
                   response, i, ssidNumber, outOfBand, initial>>

\* for ssid in ssids: second call
RemoveSsidLimitsRules ==
    /\ pc = "removeSsidLimitsRules"
    /\ Issue(RuleClearCall("removeSsidLimits", RemediationTargets[i].networkId,
                           RemediationTargets[i].number),
             "removeSsidLimitsRules", "removeSsidLimits")
    /\ i' = IF pc' = "removeSsidLimits" THEN i + 1 ELSE i
    /\ UNCHANGED <<networks, organization_ssids, organization_ssids_with_limits,
                   response, ssidNumber, outOfBand, initial>>

\* the loop is over: print(string_constants['COMPLETE'])
RemoveSsidLimitsReturns ==
    /\ pc = "removeSsidLimits"
    /\ i > Len(RemediationTargets)
    /\ stdout' = Append(stdout, COMPLETE)
    /\ pc' = "sweepOffer"
    /\ UNCHANGED <<networks, cloud, organization_ssids, organization_ssids_with_limits,
                   response, i, ssidNumber, calls, outOfBand, initial>>

----------------------------------------------------------------------------
(* Cell 8: removeCustomTrafficShapingRules(). *)

\* for network in networks: a network without 'wireless' is passed over
SweepSkipsNetwork ==
    /\ pc = "removeCustomTrafficShapingRules"
    /\ i <= Len(networks)
    /\ ~IsWireless(networks[i])
    /\ i' = i + 1
    /\ UNCHANGED <<networks, cloud, organization_ssids, organization_ssids_with_limits,
                   pc, response, ssidNumber, calls, stdout, outOfBand, initial>>

\* for ssidNumber in range(15): print(f'Modifying ...'); the call
SweepCall ==
    /\ pc = "removeCustomTrafficShapingRules"
    /\ i <= Len(networks)
    /\ IsWireless(networks[i])
    /\ \/ /\ calls' = Append(calls, RuleClearCall("removeCustomTrafficShapingRules",
                                                  networks[i].id, ssidNumber))
          /\ cloud' = Apply(cloud, RuleClearCall("removeCustomTrafficShapingRules",
                                                networks[i].id, ssidNumber))
          /\ stdout' = Append(stdout, Modifying)
          /\ pc' = "removeCustomTrafficShapingRules"
          /\ IF ssidNumber + 1 < SsidSlots
             THEN ssidNumber' = ssidNumber + 1 /\ i' = i
             ELSE ssidNumber' = 0 /\ i' = i + 1
       \/ /\ stdout' = stdout \o <<Modifying, Traceback>>
          /\ pc' = Raise("removeCustomTrafficShapingRules")
          /\ UNCHANGED <<calls, cloud, i, ssidNumber>>
    /\ UNCHANGED <<networks, organization_ssids, organization_ssids_with_limits,
                   response, outOfBand, initial>>

\* the loop is over: print(string_constants['COMPLETE'])
SweepReturns ==
    /\ pc = "removeCustomTrafficShapingRules"
    /\ i > Len(networks)
    /\ stdout' = Append(stdout, COMPLETE)
    /\ pc' = "end"
    /\ UNCHANGED <<networks, cloud, organization_ssids, organization_ssids_with_limits,
                   response, i, ssidNumber, calls, outOfBand, initial>>

----------------------------------------------------------------------------
(* Cells 9 and 10: the two gates. *)

\* if len(organization_ssids_with_limits): print('Would you like to remove ...')
TargetedOffer ==
    /\ pc = "targetedOffer"
    /\ IF Len(organization_ssids_with_limits) # 0
       THEN /\ stdout' = Append(stdout, AskLimits)
            /\ pc' = "targetedInput1"
       ELSE /\ pc' = "sweepOffer"
            /\ UNCHANGED stdout
    /\ UNCHANGED <<networks, cloud, organization_ssids, organization_ssids_with_limits,
                   response, i, ssidNumber, calls, outOfBand, initial>>

TargetedInput1 == Input("targetedInput1", "targetedIf1")
\* Variant: declining the targeted gate ends the run.
TargetedIf1Coupled == Branch("targetedIf1", CONFIRM, "targetedInput2", "end")
TargetedIf1 == Branch("targetedIf1", CONFIRM, "targetedInput2", "sweepOffer")
TargetedInput2 == Input("targetedInput2", "targetedIf2")
\* Variant: the second answer is not honoured.
TargetedIf2Ignored == Branch("targetedIf2", WORKING, "removeSsidLimits", "removeSsidLimits")
TargetedIf2 == Branch("targetedIf2", WORKING, "removeSsidLimits", "sweepOffer")

\* print('There may also be client bandwidth limits on custom traffic shaping rules...')
SweepOffer ==
    /\ pc = "sweepOffer"
    /\ stdout' = Append(stdout, AskRules)
    /\ pc' = "sweepInput1"
    /\ UNCHANGED <<networks, cloud, organization_ssids, organization_ssids_with_limits,
                   response, i, ssidNumber, calls, outOfBand, initial>>

SweepInput1 == Input("sweepInput1", "sweepIf1")
SweepIf1 == Branch("sweepIf1", CONFIRM, "sweepInput2", "end")
SweepInput2 == Input("sweepInput2", "sweepIf2")
SweepIf2 == Branch("sweepIf2", WORKING, "removeCustomTrafficShapingRules", "end")

----------------------------------------------------------------------------

Next ==
    \/ Enumerate
    \/ Detect
    \/ TargetedOffer
    \/ TargetedInput1
    \/ TargetedIf1
    \/ TargetedInput2
    \/ TargetedIf2
    \/ RemoveSsidLimitsLimits
    \/ RemoveSsidLimitsRules
    \/ RemoveSsidLimitsReturns
    \/ SweepOffer
    \/ SweepInput1
    \/ SweepIf1
    \/ SweepInput2
    \/ SweepIf2
    \/ SweepSkipsNetwork
    \/ SweepCall
    \/ SweepReturns

\* The notebook alone.
Spec == Init /\ [][Next]_vars

----------------------------------------------------------------------------
(* The environment: another administrator changes the limits of an SSID    *)
(* while the notebook waits at a prompt of the targeted gate.              *)

OutOfBandChange ==
    /\ pc = "targetedInput1"
    /\ outOfBand < MaxOutOfBand
    /\ \E n \in 1..Len(cloud) : \E k \in 1..Len(cloud[n]) : \E l \in LimitChoices :
          /\ l # Limits(cloud[n][k])
          /\ cloud' = updateNetworkWirelessSsid(cloud, n, cloud[n][k].number, l)
    /\ outOfBand' = outOfBand + 1
    /\ UNCHANGED <<networks, organization_ssids, organization_ssids_with_limits,
                   pc, response, i, ssidNumber, calls, stdout, initial>>

----------------------------------------------------------------------------

NextOutOfBand ==
    \/ Next
    \/ OutOfBandChange

\* The notebook and the other administrator.
SpecOutOfBand == Init /\ [][NextOutOfBand]_vars

----------------------------------------------------------------------------
(* The detector on its own: the detection cell applied, and applied again, *)
(* to every inventory up to MaxInventory entries.                          *)

FieldValues == {None, 0, 500}

Inventories ==
    UNION {[1..n -> [networkId : {1},
                     ssid : [number : {0},
                             perClientBandwidthLimitUp : FieldValues,
                             perClientBandwidthLimitDown : FieldValues,
                             perSsidBandwidthLimitUp : FieldValues,
                             perSsidBandwidthLimitDown : FieldValues]]] :
           n \in 0..MaxInventory}

InitDetector ==
    /\ networks = <<[id |-> 1, productTypes |-> {"appliance", "wireless"}]>>
    /\ cloud = <<>>
    /\ \E inv \in Inventories :
          organization_ssids =
              [k \in 1..Len(inv) |-> [inv[k] EXCEPT !.ssid.number = k - 1]]
    /\ organization_ssids_with_limits = <<>>
    /\ pc = "detect"
    /\ response = NoResponse
    /\ i = 0
    /\ ssidNumber = 0
    /\ calls = <<>>
    /\ stdout = <<>>
    /\ outOfBand = 0
    /\ initial = cloud

\* the detection cell is run once more
DetectAgain ==
    /\ Len(stdout) < MaxRuns
    /\ DetectCell("targetedOffer")

NextDetector ==
    \/ Detect
    \/ DetectAgain

SpecDetector == InitDetector /\ [][NextDetector]_vars

----------------------------------------------------------------------------
(* Vocabulary of the properties. *)

Range(s) == {s[k] : k \in 1..Len(s)}

\* The position of the first x in s, 0 when there is none.
IndexOf(s, x) ==
    IF x \in Range(s) THEN CHOOSE k \in 1..Len(s) : s[k] = x /\ \A j \in 1..(k - 1) : s[j] # x
    ELSE 0

\* The output up to the blanket sweep's question, and from it on.
TargetedOut ==
    IF IndexOf(stdout, AskRules) = 0 THEN stdout
    ELSE SubSeq(stdout, 1, IndexOf(stdout, AskRules) - 1)
SweepOut ==
    IF IndexOf(stdout, AskRules) = 0 THEN <<>>
    ELSE SubSeq(stdout, IndexOf(stdout, AskRules), Len(stdout))

ByTargeted(c) == c.by = "removeSsidLimits"
BySweep(c) == c.by = "removeCustomTrafficShapingRules"
TargetedCalls == SelectSeq(calls, ByTargeted)
SweepCalls == SelectSeq(calls, BySweep)

\* The tokens the prompts accept, as the notebook lists them.
AcceptedTokens == {"Y", "y", "Yes", "yes", "ye", "Ye"}

TargetedDone == COMPLETE \in Range(TargetedOut)
TargetedCanceled == CANCEL \in Range(TargetedOut)
SweepDone == COMPLETE \in Range(SweepOut)
SweepCanceled == CANCEL \in Range(SweepOut)
Failed == Traceback \in Range(stdout)

HasWirelessTag(network) == "wireless" \in network.productTypes
WirelessNetworks == SelectSeq(networks, HasWirelessTag)

\* The SSIDs configured on the dashboard, as <<network, position>>.
SsidKeys == {<<n, k>> \in (1..Len(cloud)) \X (1..MaxSsids) : k <= Len(cloud[n])}

\* At least one of the four fields is neither 0 nor null.
Limited(s) ==
    \E f \in {s.perClientBandwidthLimitUp, s.perClientBandwidthLimitDown,
              s.perSsidBandwidthLimitUp, s.perSsidBandwidthLimitDown} : f \notin {0, None}

FlaggedAtStart(n, k) == Limited(initial[n][k])

LimitClearOf(networkId, number) ==
    [op |-> "updateNetworkWirelessSsid", by |-> "removeSsidLimits",
     networkId |-> networkId, number |-> number, args |-> <<0, 0, 0, 0>>]
RuleClearOf(by, networkId, number) ==
    [op |-> "updateNetworkWirelessSsidTrafficShapingRules", by |-> by,
     networkId |-> networkId, number |-> number, args |-> <<>>]

----------------------------------------------------------------------------
(* C1 *)

\* The three lines that precede every call of a gate.
Confirmed(out, ask) ==
    /\ IndexOf(out, ask) # 0
    /\ Len(out) >= IndexOf(out, ask) + 2
    /\ out[IndexOf(out, ask) + 1] = CONFIRM
    /\ out[IndexOf(out, ask) + 2] = WORKING

C1_State ==
    /\ TargetedCalls # <<>> => Confirmed(TargetedOut, AskLimits) /\ ~TargetedCanceled
    /\ SweepCalls # <<>> => Confirmed(SweepOut, AskRules) /\ ~SweepCanceled
    /\ pc \in {"removeSsidLimits", "removeSsidLimitsRules"} =>
          Confirmed(TargetedOut, AskLimits) /\ ~TargetedCanceled
    /\ pc = "removeCustomTrafficShapingRules" =>
          Confirmed(SweepOut, AskRules) /\ ~SweepCanceled

\* A non-affirmative answer at `at` prints the cancellation and leaves the gate.
Declines(at, leaves) ==
    (pc = at /\ response \notin AcceptedTokens) =>
        /\ stdout' = Append(stdout, CANCEL)
        /\ pc' = leaves
        /\ calls' = calls
        /\ cloud' = cloud

C1_Step ==
    /\ Declines("targetedIf1", "sweepOffer")
    /\ Declines("targetedIf2", "sweepOffer")
    /\ Declines("sweepIf1", "end")
    /\ Declines("sweepIf2", "end")
    /\ (pc' = "targetedInput2" /\ pc # pc') => pc = "targetedIf1" /\ response \in AcceptedTokens
    /\ (pc' = "removeSsidLimits" /\ pc \notin {"removeSsidLimits", "removeSsidLimitsRules"}) =>
          pc = "targetedIf2" /\ response \in AcceptedTokens
    /\ (pc' = "sweepInput2" /\ pc # pc') => pc = "sweepIf1" /\ response \in AcceptedTokens
    /\ (pc' = "removeCustomTrafficShapingRules" /\ pc # pc') =>
          pc = "sweepIf2" /\ response \in AcceptedTokens
    /\ TargetedCalls' # TargetedCalls => pc \in {"removeSsidLimits", "removeSsidLimitsRules"}
    /\ SweepCalls' # SweepCalls => pc = "removeCustomTrafficShapingRules"

\* C1: at either gate a non-affirmative answer to the first or to the second prompt
\* prints the cancellation, issues no call and leaves the gate for good; a gate's
\* calls are issued only after both of its prompts were answered affirmatively.
C1_GateBlocksUnconfirmed == [](C1_State) /\ [][C1_Step]_vars

\* The targeted gate was confirmed once and declined at the second prompt, the
\* sweep was declined at its first, and the run is over.
C1_Witness ==
    /\ pc = "end"
    /\ CONFIRM \in Range(TargetedOut)
    /\ TargetedCanceled
    /\ SweepCanceled
    /\ CONFIRM \notin Range(SweepOut)
    /\ calls = <<>>

----------------------------------------------------------------------------
(* C2 *)

\* C2: the calls of removeSsidLimits are, candidate by candidate in list order, the
\* limit-clear call of the candidate followed by its rule-clear call, and when the
\* function returns there are exactly two per candidate.
C2_TwoCallsPerCandidateInOrder ==
    /\ \A k \in 1..Len(TargetedCalls) :
          TargetedCalls[k] =
              IF k % 2 = 1
              THEN LimitClearOf(organization_ssids_with_limits[(k + 1) \div 2].networkId,
                                organization_ssids_with_limits[(k + 1) \div 2].number)
              ELSE RuleClearOf("removeSsidLimits",
                               organization_ssids_with_limits[k \div 2].networkId,
                               organization_ssids_with_limits[k \div 2].number)
    /\ Len(TargetedCalls) <= 2 * Len(organization_ssids_with_limits)
    /\ TargetedDone => Len(TargetedCalls) = 2 * Len(organization_ssids_with_limits)

\* removeSsidLimits has returned from a list of two candidates.
C2_Witness ==
    /\ TargetedDone
    /\ Len(organization_ssids_with_limits) = 2
    /\ Len(TargetedCalls) = 4

----------------------------------------------------------------------------
(* C3 *)

\* C3: the calls of removeCustomTrafficShapingRules are rule-clear calls, for the
\* wireless networks in list order and within each for the slots 0..14 ascending;
\* when the function returns there are 15 per wireless network, whatever SSIDs
\* the networks hold, and none for any other network.
C3_FifteenCallsPerWirelessNetwork ==
    /\ \A k \in 1..Len(SweepCalls) :
          /\ (k - 1) \div 15 + 1 <= Len(WirelessNetworks)
          /\ SweepCalls[k] =
                RuleClearOf("removeCustomTrafficShapingRules",
                            WirelessNetworks[(k - 1) \div 15 + 1].id, (k - 1) % 15)
    /\ SweepDone => Len(SweepCalls) = 15 * Len(WirelessNetworks)

\* The sweep has returned in an organization of one network without and one with
\* the wireless tag, the latter holding a single SSID.
C3_Witness ==
    /\ SweepDone
    /\ Len(networks) = 2
    /\ Len(WirelessNetworks) = 1
    /\ Len(SweepCalls) = 15
    /\ \E n \in 1..Len(cloud) : Len(cloud[n]) = 1

----------------------------------------------------------------------------
(* C4 *)

\* The positions of the inventory whose entry has a limit, ascending.
LimitedPositions ==
    {k \in 1..Len(organization_ssids) : Limited(organization_ssids[k].ssid)}

\* The j-th smallest member of a set of positions.
Nth(S, j) == CHOOSE k \in S : Cardinality({m \in S : m <= k}) = j

C4_State ==
    pc = "targetedOffer" =>
        /\ Len(organization_ssids_with_limits) = Cardinality(LimitedPositions)
        /\ \A j \in 1..Len(organization_ssids_with_limits) :
              organization_ssids_with_limits[j] =
                  [networkId |-> organization_ssids[Nth(LimitedPositions, j)].networkId,
                   number |-> organization_ssids[Nth(LimitedPositions, j)].ssid.number]

\* C4: after the detection cell has run, once or again, the candidate list holds
\* exactly the entries of the inventory with at least one of the four fields neither
\* 0 nor null, as {networkId, number}, in inventory order; the inventory is unchanged.
C4_DetectorIsOrderedFilter ==
    [](C4_State) /\ [][organization_ssids' = organization_ssids]_vars

\* The cell has run twice on an inventory whose first entry has no limit and whose
\* second has only the per-SSID download limit set.
C4_Witness ==
    /\ pc = "targetedOffer"
    /\ Len(stdout) = 2
    /\ Len(organization_ssids) = 2
    /\ Limits(organization_ssids[1].ssid) = <<0, None, 0, None>>
    /\ Limits(organization_ssids[2].ssid) = <<0, 0, None, 500>>
    /\ organization_ssids_with_limits = <<[networkId |-> 1, number |-> 1]>>

----------------------------------------------------------------------------
(* C5 *)

NoWirelessNetwork == WirelessNetworks = <<>>

\* C5 as stated: without a wireless network nothing is listed or flagged, the
\* absence of limits is reported, neither gate prompts and no call is issued.
C5_NoPromptWithoutWireless ==
    NoWirelessNetwork =>
        /\ organization_ssids = <<>>
        /\ organization_ssids_with_limits = <<>>
        /\ pc \notin {"enumerate", "detect"} => stdout[1] = NoLimitsFound
        /\ AskLimits \notin Range(stdout)
        /\ AskRules \notin Range(stdout)
        /\ calls = <<>>

\* C5, amended: without a wireless network nothing is listed or flagged, the
\* absence of limits is reported, the targeted gate does not prompt and no call is
\* issued in the whole run; the blanket sweep's gate is offered all the same.
C5_NoCallWithoutWireless ==
    NoWirelessNetwork =>
        /\ organization_ssids = <<>>
        /\ organization_ssids_with_limits = <<>>
        /\ pc \notin {"enumerate", "detect"} => stdout[1] = NoLimitsFound
        /\ AskLimits \notin Range(stdout)
        /\ pc \notin {"enumerate", "detect", "targetedOffer", "sweepOffer"} =>
              AskRules \in Range(stdout)
        /\ calls = <<>>
        /\ cloud = initial

\* An organization of two networks, neither wireless: the sweep was confirmed twice
\* and has returned.
C5_Witness ==
    /\ NoWirelessNetwork
    /\ Len(networks) = 2
    /\ pc = "end"
    /\ SweepDone
    /\ calls = <<>>

----------------------------------------------------------------------------
(* C6 *)

\* C6: the gates are independent. When the targeted remediation has returned and the
\* sweep was declined, the run made exactly two calls per candidate and none by
\* the sweep; when the targeted gate was declined or skipped and the sweep has
\* returned, every call is the sweep's, 15 per wireless network; and however the
\* targeted gate ended, a run that reaches its end has offered the sweep.
C6_GatesIndependent ==
    /\ (TargetedDone /\ SweepCanceled) =>
          /\ Len(calls) = 2 * Len(organization_ssids_with_limits)
          /\ SweepCalls = <<>>
    /\ (~TargetedDone /\ ~Failed /\ SweepDone) =>
          /\ TargetedCalls = <<>>
          /\ Len(calls) = 15 * Len(WirelessNetworks)
    /\ (TargetedDone /\ SweepDone) =>
          Len(calls) = 2 * Len(organization_ssids_with_limits) + 15 * Len(WirelessNetworks)
    /\ (TargetedCanceled /\ pc # "sweepOffer") => AskRules \in Range(stdout)
    /\ pc = "end" => AskRules \in Range(stdout)

\* Two wireless networks with one flagged SSID: the targeted remediation was
\* confirmed and has returned, the sweep was declined.
C6_Witness ==
    /\ Len(WirelessNetworks) = 2
    /\ Len(organization_ssids_with_limits) = 1
    /\ TargetedDone
    /\ SweepCanceled
    /\ pc = "end"
    /\ Len(calls) = 2

----------------------------------------------------------------------------
(* C7 *)

Targets(call, n, k) == call.networkId = networks[n].id /\ call.number = cloud[n][k].number

LimitsClearedFor(n, k) ==
    \E j \in 1..Len(calls) :
        calls[j].op = "updateNetworkWirelessSsid" /\ Targets(calls[j], n, k)
RulesClearedFor(n, k) ==
    \E j \in 1..Len(calls) :
        calls[j].op = "updateNetworkWirelessSsidTrafficShapingRules" /\ Targets(calls[j], n, k)

\* Every SSID shows the effect of exactly the calls that were accepted for it.
EffectsInPlace ==
    \A <<n, k>> \in SsidKeys :
        /\ cloud[n][k].rules = IF RulesClearedFor(n, k) THEN <<>> ELSE initial[n][k].rules
        /\ LimitsClearedFor(n, k) => Limits(cloud[n][k]) = <<0, 0, 0, 0>>
        /\ (~LimitsClearedFor(n, k) /\ outOfBand = 0) =>
              Limits(cloud[n][k]) = Limits(initial[n][k])

C7_State ==
    Failed =>
        /\ pc = "error"
        /\ stdout[Len(stdout)] = Traceback
        /\ (IF IndexOf(stdout, AskRules) = 0 THEN ~TargetedDone ELSE ~SweepDone)
        /\ EffectsInPlace

C7_Step ==
    /\ Failed => UNCHANGED <<calls, cloud, stdout, pc>>
    /\ Failed' => calls' = calls /\ cloud' = cloud

\* C7: in both loops a failing call ends the run: no further call is issued, nothing
\* is undone, the accepted calls keep their effect, and the completion line of that
\* loop is not printed.
C7_AbortWithoutRollback == [](C7_State) /\ [][C7_Step]_vars

\* The rule-clear call of a candidate failed right after its limit-clear call was
\* accepted: the SSID has no limits and still has its rules.
C7_Witness ==
    /\ Failed
    /\ Len(TargetedCalls) = 1
    /\ calls = TargetedCalls
    /\ \E <<n, k>> \in SsidKeys :
          /\ Targets(calls[1], n, k)
          /\ Limited(initial[n][k])
          /\ Limits(cloud[n][k]) = <<0, 0, 0, 0>>
          /\ initial[n][k].rules # <<>>
          /\ cloud[n][k].rules = initial[n][k].rules

----------------------------------------------------------------------------
(* C8 *)

\* The <<networkId, number>> pairs that had a limit when the inventory was taken.
FlaggedPairs ==
    {<<networks[n].id, initial[n][k].number>> : <<n, k>> \in {x \in SsidKeys : FlaggedAtStart(x[1], x[2])}}

PairsOf(s) == {<<s[j].networkId, s[j].number>> : j \in 1..Len(s)}

C8_State ==
    /\ PairsOf(TargetedCalls) \subseteq FlaggedPairs
    /\ TargetedDone => PairsOf(TargetedCalls) = FlaggedPairs
    /\ pc \notin {"enumerate", "detect"} =>
          PairsOf(organization_ssids_with_limits) = FlaggedPairs

C8_Step ==
    /\ pc # "enumerate" => organization_ssids' = organization_ssids
    /\ pc # "detect" => organization_ssids_with_limits' = organization_ssids_with_limits

\* C8: the inventory and the candidate list are computed once and never again; the
\* targeted path calls exactly the SSIDs that had a limit when the inventory was
\* taken, whatever was changed on the dashboard since, and no other SSID.
C8_TargetsAreTheSnapshot == [](C8_State) /\ [][C8_Step]_vars

\* After the inventory was taken a limit was set out of band on an SSID that had
\* none; the targeted remediation has returned and that SSID, never called, still
\* has the limit.
C8_Witness ==
    /\ TargetedDone
    /\ outOfBand = 1
    /\ \E <<n, k>> \in SsidKeys :
          /\ ~Limited(initial[n][k])
          /\ Limited(cloud[n][k])
          /\ <<networks[n].id, cloud[n][k].number>> \notin PairsOf(TargetedCalls)

----------------------------------------------------------------------------
(* C9 *)

\* At the `if` at `at`: the affirmative branch is taken exactly for an accepted token.
Decides(at, yes, onYes, onNo) ==
    pc = at =>
        /\ response \in AcceptedTokens <=> (pc' = onYes /\ stdout' = Append(stdout, yes))
        /\ response \notin AcceptedTokens <=> (pc' = onNo /\ stdout' = Append(stdout, CANCEL))

C9_Step ==
    /\ Decides("targetedIf1", CONFIRM, "targetedInput2", "sweepOffer")
    /\ Decides("targetedIf2", WORKING, "removeSsidLimits", "sweepOffer")
    /\ Decides("sweepIf1", CONFIRM, "sweepInput2", "end")
    /\ Decides("sweepIf2", WORKING, "removeCustomTrafficShapingRules", "end")

\* C9: each of the four prompts takes its affirmative branch if and only if the
\* response is one of Y, y, Yes, yes, ye, Ye, and cancels on every other response.
C9_ExactTokenSet == [][C9_Step]_vars

\* Three prompts were answered with an accepted token and the fourth was not: the
\* targeted remediation has run and the sweep was canceled at its second prompt.
C9_Witness ==
    /\ TargetedDone
    /\ CONFIRM \in Range(SweepOut)
    /\ SweepCanceled
    /\ pc = "end"

----------------------------------------------------------------------------
(* C10 *)

\* C10: when the targeted remediation returns, without a failure and without a
\* change out of band, every SSID that was flagged has its four limits at 0 and no
\* rules, every other SSID is as it was, and detection on the new configuration
\* finds nothing.
C10_FlaggedClearedOthersUntouched ==
    (pc = "sweepOffer" /\ TargetedDone /\ outOfBand = 0) =>
        /\ \A <<n, k>> \in SsidKeys :
              IF FlaggedAtStart(n, k)
              THEN Limits(cloud[n][k]) = <<0, 0, 0, 0>> /\ cloud[n][k].rules = <<>>
              ELSE cloud[n][k] = initial[n][k]
        /\ Detector(Enumeration(networks, cloud, 1)) = <<>>

\* The remediation has returned where one SSID was flagged and had rules, and
\* another was not flagged and had rules.
C10_Witness ==
    /\ pc = "sweepOffer"
    /\ TargetedDone
    /\ outOfBand = 0
    /\ \E <<n, k>> \in SsidKeys : FlaggedAtStart(n, k) /\ initial[n][k].rules # <<>>
    /\ \E <<n, k>> \in SsidKeys : ~FlaggedAtStart(n, k) /\ cloud[n][k].rules # <<>>

====
